---- MODULE Spec2Model ----
(***************************************************************************)
(* MTGP32-23209 CUDA sample (src/mtgp32-cuda256-tex.cu): the two kernels   *)
(* mtgp32_uint32_kernel and mtgp32_single_kernel, their helpers            *)
(* status_read, status_write, para_rec, temper and temper_single, and the  *)
(* launch of one kernel over block_num thread blocks.                      *)
(*                                                                         *)
(* A 32-bit word (uint32_t) is the set of the positions of its 1 bits,     *)
(* bit 0 the least significant: words keep their full width.               *)
(*                                                                         *)
(* The source has THREAD_NUM = 256 lanes and N = 726 state words.  The     *)
(* model keeps the kernels' index arithmetic exactly as written and scales *)
(* the two numbers to THREAD_NUM = 2 and N = 5, which keeps every order    *)
(* relation the index arithmetic depends on:                               *)
(*     2 * THREAD_NUM < N < 3 * THREAD_NUM        (512 < 726 < 768)         *)
(*     THREAD_NUM < LARGE_SIZE - N < 2*THREAD_NUM (256 < 298 < 512)        *)
(*     N - 2 * THREAD_NUM < THREAD_NUM            (214 < 256)              *)
(*     THREAD_NUM <= N - THREAD_NUM               (256 <= 470)             *)
(***************************************************************************)
EXTENDS Integers, Sequences, FiniteSets, Bags, TLC

N == 5
THREAD_NUM == 2
LARGE_SIZE == THREAD_NUM * 4
TBL_SIZE == 16
BLOCK_NUM_MAX == 128

\* The largest number of batches a launch runs over all its blocks.
MaxBatches == 2

Lanes == 0 .. THREAD_NUM - 1
Slots == 0 .. LARGE_SIZE - 1
BitPos == 0 .. 31

-----------------------------------------------------------------------------
(* uint32_t arithmetic on bit sets *)

Xor(a, b) == (a \ b) \cup (b \ a)

Shl(a, s) == {k + s : k \in {x \in a : x + s <= 31}}

Shr(a, s) == {k - s : k \in {x \in a : x >= s}}

\* v & 0x0f as a number
Low4(a) ==
    (IF 0 \in a THEN 1 ELSE 0) + (IF 1 \in a THEN 2 ELSE 0)
  + (IF 2 \in a THEN 4 ELSE 0) + (IF 3 \in a THEN 8 ELSE 0)

\* __constant__ uint32_t mask = 0xff800000
mask == 23 .. 31

Zero == {}

-----------------------------------------------------------------------------
(* The parameter data of mtgp32_params_fast_23209 (not part of src/): one   *)
(* sh1, sh2 and three 16-entry tables per block.  As in the published      *)
(* tables, entry k of a table is the XOR of the basis words of the 1 bits  *)
(* of k, and flt_tmp_tbl[k] = (tmp_tbl[k] >> 9) | 0x3f800000.              *)

sh1_tbl(bid) == 13

sh2_tbl(bid) == 4

TblBasis(bid, i) == {(5 * i + bid) % 32, (11 * i + 3 * bid + 7) % 32, 31 - i}

TmpBasis(bid, i) == {(7 * i + 2 * bid + 1) % 32, (13 * i + bid + 16) % 32, 9 + i}

XorBasis(b0, b1, b2, b3, k) ==
    Xor(Xor(IF k % 2 = 1 THEN b0 ELSE Zero,
            IF (k \div 2) % 2 = 1 THEN b1 ELSE Zero),
        Xor(IF (k \div 4) % 2 = 1 THEN b2 ELSE Zero,
            IF (k \div 8) % 2 = 1 THEN b3 ELSE Zero))

params_tbl(bid, k) ==
    XorBasis(TblBasis(bid, 0), TblBasis(bid, 1), TblBasis(bid, 2), TblBasis(bid, 3), k)

params_tmp_tbl(bid, k) ==
    XorBasis(TmpBasis(bid, 0), TmpBasis(bid, 1), TmpBasis(bid, 2), TmpBasis(bid, 3), k)

\* 0x3f800000: sign 0, exponent field 127
params_flt_tmp_tbl(bid, k) == Shr(params_tmp_tbl(bid, k), 9) \cup (23 .. 29)

\* make_texture: h_texture_tbl[.][i * TBL_SIZE + j] = params[i].<table>[j]
tex_param_ref(f) == params_tbl(f \div TBL_SIZE, f % TBL_SIZE)

tex_temper_ref(f) == params_tmp_tbl(f \div TBL_SIZE, f % TBL_SIZE)

tex_single_ref(f) == params_flt_tmp_tbl(f \div TBL_SIZE, f % TBL_SIZE)

-----------------------------------------------------------------------------
(* The device functions *)

para_rec(X1, X2, Y, bid) ==
    LET X0 == Xor(X1 \cap mask, X2)
        X  == Xor(X0, Shl(X0, sh1_tbl(bid)))
        Y1 == Xor(X, Shr(Y, sh2_tbl(bid)))
        MAT == tex_param_ref(bid * 16 + Low4(Y1))
    IN  Xor(Y1, MAT)

TReduce(T) ==
    LET T1 == Xor(T, Shr(T, 16))
    IN  Xor(T1, Shr(T1, 8))

temper(V, T, bid) ==
    Xor(V, tex_temper_ref(bid * 16 + Low4(TReduce(T))))

\* temper_single with V >> 8 for V >> 9.
temper_singleShr8(V, T, bid) ==
    Xor(Shr(V, 8), tex_single_ref(bid * 16 + Low4(TReduce(T))))

\* temper_single with the >> 9 of V left out.
temper_singleNoShift(V, T, bid) ==
    Xor(V, tex_single_ref(bid * 16 + Low4(TReduce(T))))

temper_single(V, T, bid) ==
    Xor(Shr(V, 9), tex_single_ref(bid * 16 + Low4(TReduce(T))))

-----------------------------------------------------------------------------
(* The state: device memory, the launch's arguments, the resident block's   *)
(* shared memory and lanes, and the record of what the lanes have done.     *)

VARIABLES
    kernel,      \* "uint32": mtgp32_uint32_kernel, "single": mtgp32_single_kernel
    size,        \* the kernel's argument size (num_data / block_num)
    block_num,   \* the number of thread blocks of the launch
    pos_tbl,     \* __constant__ pos_tbl, set by make_constant
    d_status,    \* mtgp32_kernel_status_t d_status[block_num], as the flat array it is
    d_data,      \* uint32_t d_data[num_data]
    bstate,      \* per block: "pending", "running" or "finished"
    status,      \* __shared__ uint32_t status[LARGE_SIZE] of the running block
    junk,        \* what memory outside the arrays holds during this launch
    pc,          \* per lane of the running block: the statement it is at
    ph,          \* per lane: the phase (1..4) of the loop body it is in
    i_loop,      \* per lane: the loop variable i
    r,           \* per lane: the register r
    epoch,       \* the number of barriers the running block has passed
    owner,       \* per slot: <<lane, epoch>> of its last write in this call, or NoOwner
    unsynced,    \* <<slot, writer, reader>>: reads with no barrier after the write
    rdLog,       \* per block: bag of <<k, slot>>, status_read's copies
    wrLog,       \* per block: bag of <<k, slot>>, status_write's copies
    outLog,      \* bag of <<block, index, offset>>: the writes to d_data
    produced,    \* per block: the r of each word of the block's last batch
    d_status0,   \* d_status as make_kernel_data left it
    run,         \* 1, or 2 when the launch is repeated from the same d_status
    first,       \* the d_data and d_status the first of two launches left
    hpc,         \* the host code's position (main and the make_ functions)
    params,      \* const mtgp32_params_fast_t params[]: pos, sh1, sh2 per block
    h_tbl,       \* make_constant's host arrays h_pos_tbl, h_sh1_tbl, h_sh2_tbl
    sh_tbl,      \* __constant__ sh1_tbl and sh2_tbl as make_constant loaded them
    argv,        \* main's arguments: number_of_block, number_of_output
    num_data,    \* main's num_data
    args,        \* the arguments of a device function evaluated on its own
    ret          \* its result

hostVars == <<hpc, params, h_tbl, sh_tbl, argv, num_data, args, ret>>

vars == <<kernel, size, block_num, pos_tbl, d_status, d_data, bstate, status, junk,
          pc, ph, i_loop, r, epoch, owner, unsynced, rdLog, wrLog, outLog,
          produced, d_status0, run, first, hostVars>>

launchVars == <<kernel, size, block_num, pos_tbl, d_status0, run, first, hostVars>>

\* The host variables while a kernel runs: the host waits in cudaThreadSynchronize().
HostWaits ==
    /\ hpc = "sync"
    /\ params = <<>>
    /\ h_tbl = <<>>
    /\ sh_tbl = <<>>
    /\ argv = <<>>
    /\ num_data = size * block_num
    /\ args = <<>>
    /\ ret = <<>>

NoOwner == <<-1, -1>>

\* The launches tried: block_num blocks, size words per block, pos for pos_tbl.
BlockNums == {1, 2}

Sizes == {-1, 0, 1} \cup {k * LARGE_SIZE : k \in 1 .. MaxBatches}

\* The words a read outside an array may return.
Junk == {Zero, {0, 5, 23, 30, 31}}

\* A launch runs at most MaxBatches batches over all its blocks; the sizes
\* that are not a multiple of LARGE_SIZE are launched on one block, and a pos
\* above N - THREAD_NUM, with which phase 1 itself reads beyond status[], is
\* launched for one batch.
Launches ==
    {l \in BlockNums \X Sizes \X (1 .. N - 1) :
        /\ l[1] * l[2] <= MaxBatches * LARGE_SIZE
        /\ (l[1] > 1 => l[2] % LARGE_SIZE = 0)
        /\ (l[3] > N - THREAD_NUM => l[1] * l[2] <= LARGE_SIZE)}

Blocks == 0 .. block_num - 1

\* make_uint32_random / make_single_random: cudaMalloc of num_data words
DataLen == IF size > 0 THEN size * block_num ELSE 0

\* mtgp32_init_state(&h_status[i].status[0], &params[i], i + 1) (not part of src/)
InitWord(bid, k) ==
    {(3 * k + 5 * bid) % 32, (7 * k + 11 * bid + 13) % 32, (k * k + bid + 2) % 32}

Running == {b \in Blocks : bstate[b] = "running"}

Cur == CHOOSE b \in Blocks : bstate[b] = "running"

Init ==
    /\ kernel \in {"uint32", "single"}
    /\ \E l \in Launches :
          /\ block_num = l[1]
          /\ size = l[2]
          /\ pos_tbl = [b \in 0 .. l[1] - 1 |-> l[3]]
    /\ d_status = [f \in 0 .. block_num * N - 1 |-> InitWord(f \div N, f % N)]
    /\ d_status0 = d_status
    /\ d_data = [x \in 0 .. DataLen - 1 |-> Zero]
    /\ bstate = [b \in 0 .. block_num - 1 |-> "pending"]
    /\ junk \in Junk
    /\ status = [s \in Slots |-> junk]
    /\ pc = [t \in Lanes |-> "idle"]
    /\ ph = [t \in Lanes |-> 1]
    /\ i_loop = [t \in Lanes |-> 0]
    /\ r = [t \in Lanes |-> Zero]
    /\ epoch = 0
    /\ owner = [s \in Slots |-> NoOwner]
    /\ unsynced = {}
    /\ rdLog = [b \in 0 .. block_num - 1 |-> EmptyBag]
    /\ wrLog = [b \in 0 .. block_num - 1 |-> EmptyBag]
    /\ outLog = EmptyBag
    /\ produced = [b \in 0 .. block_num - 1 |-> [j \in Slots |-> Zero]]
    /\ run = 1
    /\ first = [data |-> <<>>, st |-> <<>>]
    /\ HostWaits

-----------------------------------------------------------------------------
(* Memory accesses.  An index outside status[] or outside the allocation of *)
(* d_status or d_data is undefined behaviour: a read returns junk, a write  *)
(* changes nothing the program reads back.  d_status[bid].status[k] with    *)
(* k >= N is the address of d_status[bid + 1].status[k - N].                *)

SharedRead(idx) == IF idx \in Slots THEN status[idx] ELSE junk

SharedWrite(idx, v) == IF idx \in Slots THEN [status EXCEPT ![idx] = v] ELSE status

OwnerWrite(idx, t) == IF idx \in Slots THEN [owner EXCEPT ![idx] = <<t, epoch>>] ELSE owner

GlobalRead(bid, k) ==
    IF bid * N + k \in DOMAIN d_status THEN d_status[bid * N + k] ELSE junk

GlobalWrite(bid, k, v) ==
    IF bid * N + k \in DOMAIN d_status
    THEN [d_status EXCEPT ![bid * N + k] = v]
    ELSE d_status

\* The reads among idxs that lane t makes of a slot another lane wrote since the
\* last barrier.
Unsynced(t, idxs) ==
    {<<s, owner[s][1], t>> :
        s \in {x \in idxs \cap Slots : owner[x] # NoOwner /\ owner[x][1] # t
                                        /\ owner[x][2] = epoch}}

-----------------------------------------------------------------------------
(* The block scheduler: one block is resident at a time, in any order.      *)

Dispatch(b) ==
    /\ b \in Blocks
    /\ bstate[b] = "pending"
    /\ Running = {}
    /\ bstate' = [bstate EXCEPT ![b] = "running"]
    /\ status' = [s \in Slots |-> junk]
    /\ pc' = [t \in Lanes |-> "rd1"]
    /\ ph' = [t \in Lanes |-> 1]
    /\ i_loop' = [t \in Lanes |-> 0]
    /\ r' = [t \in Lanes |-> Zero]
    /\ epoch' = 0
    /\ owner' = [s \in Slots |-> NoOwner]
    /\ UNCHANGED <<launchVars, d_status, d_data, junk, unsynced, rdLog, wrLog, outLog,
                   produced>>

Retire ==
    /\ Running # {}
    /\ \A t \in Lanes : pc[t] = "done"
    /\ bstate' = [bstate EXCEPT ![Cur] = "finished"]
    /\ pc' = [t \in Lanes |-> "idle"]
    /\ UNCHANGED <<launchVars, d_status, d_data, status, junk, ph, i_loop, r, epoch,
                   owner, unsynced, rdLog, wrLog, outLog, produced>>

-----------------------------------------------------------------------------
(* status_read and status_write: three copy statements and a barrier each   *)

\* The d_status[bid].status index of copy statement n (1..3) of lane tid.
CopyIndex(n, tid) == (n - 1) * THREAD_NUM + tid

\* The status[] slot of copy statement n of lane tid.
CopySlot(n, tid) ==
    CASE n = 1 -> LARGE_SIZE - N + tid
      [] n = 2 -> LARGE_SIZE - N + THREAD_NUM + tid
      [] n = 3 -> 6 * THREAD_NUM - N + tid

\* if (tid < N - THREAD_NUM) guards the third copy.
CopyGuard(n, tid) == n < 3 \/ tid < N - THREAD_NUM

ReadCopy(t, n, next) ==
    /\ Running # {}
    /\ pc' = [pc EXCEPT ![t] = next]
    /\ IF CopyGuard(n, t)
       THEN /\ status' = SharedWrite(CopySlot(n, t), GlobalRead(Cur, CopyIndex(n, t)))
            /\ owner' = OwnerWrite(CopySlot(n, t), t)
            /\ rdLog' = [rdLog EXCEPT ![Cur] = @ (+) SetToBag({<<CopyIndex(n, t), CopySlot(n, t)>>})]
       ELSE UNCHANGED <<status, owner, rdLog>>
    /\ UNCHANGED <<launchVars, d_status, d_data, bstate, junk, ph, i_loop, r, epoch,
                   unsynced, wrLog, outLog, produced>>

StatusRead1(t) == pc[t] = "rd1" /\ ReadCopy(t, 1, "rd2")

StatusRead2(t) == pc[t] = "rd2" /\ ReadCopy(t, 2, "rd3")

StatusRead3(t) == pc[t] = "rd3" /\ ReadCopy(t, 3, "rdB")

WriteCopy(t, n, next) ==
    /\ Running # {}
    /\ pc' = [pc EXCEPT ![t] = next]
    /\ IF CopyGuard(n, t)
       THEN /\ d_status' = GlobalWrite(Cur, CopyIndex(n, t), SharedRead(CopySlot(n, t)))
            /\ unsynced' = unsynced \cup Unsynced(t, {CopySlot(n, t)})
            /\ wrLog' = [wrLog EXCEPT ![Cur] = @ (+) SetToBag({<<CopyIndex(n, t), CopySlot(n, t)>>})]
       ELSE UNCHANGED <<d_status, unsynced, wrLog>>
    /\ UNCHANGED <<launchVars, d_data, bstate, status, junk, ph, i_loop, r, epoch,
                   owner, rdLog, outLog, produced>>

StatusWrite1(t) == pc[t] = "wr1" /\ WriteCopy(t, 1, "wr2")

StatusWrite2(t) == pc[t] = "wr2" /\ WriteCopy(t, 2, "wr3")

StatusWrite3(t) == pc[t] = "wr3" /\ WriteCopy(t, 3, "wrB")

-----------------------------------------------------------------------------
(* The loop body of the two kernels: four phases of                         *)
(*   r = para_rec(...); status[...] = r; o = temper(r, ...); d_data[...] = o *)

\* The first index of phase p's reads, before tid is added.
PhaseBase(p) ==
    CASE p = 1 -> LARGE_SIZE - N
      [] p = 2 -> 5 * THREAD_NUM - N
      [] p = 3 -> 6 * THREAD_NUM - N
      [] p = 4 -> 3 * THREAD_NUM - N

\* The phases whose read indices are taken % LARGE_SIZE.
Wraps(k, p) == (k = "uint32" /\ p = 2) \/ (k = "single" /\ p = 3)

\* The index of the read at offset off (0, 1, pos, pos - 1) of lane tid in phase p.
ReadIdx(k, p, tid, off) ==
    IF Wraps(k, p)
    THEN (PhaseBase(p) + tid + off) % LARGE_SIZE
    ELSE PhaseBase(p) + tid + off

\* WriteSlot with the phase counted from 1 where the code counts from 0.
WriteSlotNextPhase(p, tid) == tid + p * THREAD_NUM

\* status[tid + (p - 1) * THREAD_NUM] = r
WriteSlot(p, tid) == tid + (p - 1) * THREAD_NUM

\* DataIdx with the phase's offset left out.
DataIdxNoPhase(bid, p, i, tid) == size * bid + i + tid

\* d_data[size * bid + (p - 1) * THREAD_NUM + i + tid] = o
DataIdx(bid, p, i, tid) == size * bid + (p - 1) * THREAD_NUM + i + tid

\* HasBarrier with the __syncthreads() after phase 4 commented out as well.
HasBarrierOnly2(p) == p = 2

\* __syncthreads() follows phases 2 and 4; after phases 1 and 3 it is commented out.
HasBarrier(p) == p \in {2, 4}

\* The statement after phase p and its barrier, if any: phase p + 1, or after
\* phase 4 the loop's i += LARGE_SIZE and test.
AfterPhasePc(p) == IF p = 4 THEN "loop" ELSE "rec"

AfterPhasePh(p) == IF p = 4 THEN 1 ELSE p + 1

\* AfterPhaseI with i += 2 * LARGE_SIZE for i += LARGE_SIZE.
AfterPhaseISkip(p, i) == IF p = 4 THEN i + 2 * LARGE_SIZE ELSE i

AfterPhaseI(p, i) == IF p = 4 THEN i + LARGE_SIZE ELSE i

\* for (int i = 0; i < size; i += LARGE_SIZE)
LoopTest(t) ==
    /\ pc[t] = "loop"
    /\ pc' = [pc EXCEPT ![t] = IF i_loop[t] < size THEN "rec" ELSE "wr1"]
    /\ UNCHANGED <<launchVars, d_status, d_data, bstate, status, junk, ph, i_loop, r,
                   epoch, owner, unsynced, rdLog, wrLog, outLog, produced>>

Rec(t) ==
    /\ pc[t] = "rec"
    /\ LET p  == ph[t]
           i1 == ReadIdx(kernel, p, t, 0)
           i2 == ReadIdx(kernel, p, t, 1)
           iy == ReadIdx(kernel, p, t, pos_tbl[Cur])
           v  == para_rec(SharedRead(i1), SharedRead(i2), SharedRead(iy), Cur)
       IN  /\ r' = [r EXCEPT ![t] = v]
           /\ produced' = [produced EXCEPT ![Cur][WriteSlot(p, t)] = v]
           /\ unsynced' = unsynced \cup Unsynced(t, {i1, i2, iy})
    /\ pc' = [pc EXCEPT ![t] = "store"]
    /\ UNCHANGED <<launchVars, d_status, d_data, bstate, status, junk, ph, i_loop,
                   epoch, owner, rdLog, wrLog, outLog>>

Store(t) ==
    /\ pc[t] = "store"
    /\ status' = SharedWrite(WriteSlot(ph[t], t), r[t])
    /\ owner' = OwnerWrite(WriteSlot(ph[t], t), t)
    /\ pc' = [pc EXCEPT ![t] = "temper"]
    /\ UNCHANGED <<launchVars, d_status, d_data, bstate, junk, ph, i_loop, r, epoch,
                   unsynced, rdLog, wrLog, outLog, produced>>

Temper(t) ==
    /\ pc[t] = "temper"
    /\ LET p   == ph[t]
           it  == ReadIdx(kernel, p, t, pos_tbl[Cur] - 1)
           o   == IF kernel = "uint32"
                  THEN temper(r[t], SharedRead(it), Cur)
                  ELSE temper_single(r[t], SharedRead(it), Cur)
           idx == DataIdx(Cur, p, i_loop[t], t)
       IN  /\ d_data' = IF idx \in DOMAIN d_data THEN [d_data EXCEPT ![idx] = o] ELSE d_data
           /\ outLog' = outLog (+) SetToBag({<<Cur, idx, (p - 1) * THREAD_NUM + i_loop[t] + t>>})
           /\ unsynced' = unsynced \cup Unsynced(t, {it})
           /\ pc' = [pc EXCEPT ![t] = IF HasBarrier(p) THEN "bar" ELSE AfterPhasePc(p)]
           /\ ph' = [ph EXCEPT ![t] = IF HasBarrier(p) THEN p ELSE AfterPhasePh(p)]
           /\ i_loop' = [i_loop EXCEPT ![t] = IF HasBarrier(p) THEN @ ELSE AfterPhaseI(p, @)]
    /\ UNCHANGED <<launchVars, d_status, bstate, status, junk, r, epoch, owner,
                   rdLog, wrLog, produced>>

\* __syncthreads(): when every lane of the block waits at one, all go on.
Barrier ==
    /\ Running # {}
    /\ \A t \in Lanes : pc[t] \in {"rdB", "bar", "wrB"}
    /\ pc' = [t \in Lanes |->
                CASE pc[t] = "rdB" -> "loop"
                  [] pc[t] = "wrB" -> "done"
                  [] pc[t] = "bar" -> AfterPhasePc(ph[t])]
    /\ ph' = [t \in Lanes |-> IF pc[t] = "bar" THEN AfterPhasePh(ph[t]) ELSE ph[t]]
    /\ i_loop' = [t \in Lanes |->
                IF pc[t] = "bar" THEN AfterPhaseI(ph[t], i_loop[t]) ELSE i_loop[t]]
    /\ epoch' = epoch + 1
    /\ UNCHANGED <<launchVars, d_status, d_data, bstate, status, junk, r, owner,
                   unsynced, rdLog, wrLog, outLog, produced>>

Next ==
    \/ \E b \in Blocks : Dispatch(b)
    \/ Retire
    \/ Barrier
    \/ \E t \in Lanes : StatusRead1(t)
    \/ \E t \in Lanes : StatusRead2(t)
    \/ \E t \in Lanes : StatusRead3(t)
    \/ \E t \in Lanes : LoopTest(t)
    \/ \E t \in Lanes : Rec(t)
    \/ \E t \in Lanes : Store(t)
    \/ \E t \in Lanes : Temper(t)
    \/ \E t \in Lanes : StatusWrite1(t)
    \/ \E t \in Lanes : StatusWrite2(t)
    \/ \E t \in Lanes : StatusWrite3(t)

Spec == Init /\ [][Next]_vars

-----------------------------------------------------------------------------
(* The same launch made twice from the same d_status, to compare the two.   *)

Relaunch ==
    /\ run = 1
    /\ \A b \in Blocks : bstate[b] = "finished"
    /\ run' = 2
    /\ first' = [data |-> d_data, st |-> d_status]
    /\ d_status' = d_status0
    /\ d_data' = [x \in DOMAIN d_data |-> Zero]
    /\ bstate' = [b \in Blocks |-> "pending"]
    /\ junk' \in Junk
    /\ status' = [s \in Slots |-> junk']
    /\ epoch' = 0
    /\ owner' = [s \in Slots |-> NoOwner]
    /\ unsynced' = {}
    /\ rdLog' = [b \in Blocks |-> EmptyBag]
    /\ wrLog' = [b \in Blocks |-> EmptyBag]
    /\ outLog' = EmptyBag
    /\ produced' = [b \in Blocks |-> [j \in Slots |-> Zero]]
    /\ UNCHANGED <<kernel, size, block_num, pos_tbl, d_status0, pc, ph, i_loop, r,
                   hostVars>>

InitTwice == Init /\ block_num = 1 /\ size = LARGE_SIZE

NextTwice == Next \/ Relaunch

SpecTwice == InitTwice /\ [][NextTwice]_vars

-----------------------------------------------------------------------------
(* One block under a fair scheduler: a pending block is dispatched, every   *)
(* lane that has a statement to execute executes it, a barrier that every   *)
(* lane has reached releases them, and a block whose lanes are done retires.*)

InitFair == Init /\ block_num = 1

\* The statements of a lane between two barriers.
LanePcs == {"rd1", "rd2", "rd3", "loop", "rec", "store", "temper", "wr1", "wr2", "wr3"}

\* Lane t executes the statement it is at: the step of Next that moves pc[t]
\* away from a statement of LanePcs and leaves the other lanes where they are.
Executes(t) ==
    /\ pc[t] \in LanePcs
    /\ \E q \in (LanePcs \cup {"rdB", "bar", "wrB"}) \ {pc[t]} :
            pc' = [pc EXCEPT ![t] = q]

Fairness ==
    /\ WF_vars(\E b \in Blocks : Dispatch(b))
    /\ WF_vars(Barrier)
    /\ WF_vars(Retire)
    /\ \A t \in Lanes : WF_pc(Executes(t))

SpecFair == InitFair /\ [][Next]_vars /\ Fairness

-----------------------------------------------------------------------------
(* The device and host code outside a kernel launch: no block is resident.  *)

devVars == <<kernel, size, d_status, d_data, bstate, status, junk, pc, ph, i_loop, r,
             epoch, owner, unsynced, rdLog, wrLog, outLog, produced, d_status0, run,
             first>>

NoLaunch ==
    /\ kernel = "uint32"
    /\ size = 0
    /\ d_status = <<>>
    /\ d_status0 = <<>>
    /\ d_data = <<>>
    /\ bstate = <<>>
    /\ junk = Zero
    /\ status = [s \in Slots |-> Zero]
    /\ pc = [t \in Lanes |-> "idle"]
    /\ ph = [t \in Lanes |-> 1]
    /\ i_loop = [t \in Lanes |-> 0]
    /\ r = [t \in Lanes |-> Zero]
    /\ epoch = 0
    /\ owner = [s \in Slots |-> NoOwner]
    /\ unsynced = {}
    /\ rdLog = <<>>
    /\ wrLog = <<>>
    /\ outLog = EmptyBag
    /\ produced = <<>>
    /\ run = 1
    /\ first = [data |-> <<>>, st |-> <<>>]

-----------------------------------------------------------------------------
(* temper_single evaluated on its own, for V and T over words that exercise *)
(* every bit range the function treats differently.                         *)

WordsV ==
    {Zero, BitPos, {31}, {9}, {8, 31}, {0, 9, 22, 23, 30}, 9 .. 31, {3, 10, 17, 24, 31}}

WordsT == {Zero, BitPos, {0}, {8}, {16, 1}, {24, 2}, {3, 11}, {0, 1, 2, 3}}

InitTemper ==
    /\ NoLaunch
    /\ block_num = 2
    /\ pos_tbl = <<>>
    /\ hpc = "call"
    /\ params = <<>>
    /\ h_tbl = <<>>
    /\ sh_tbl = <<>>
    /\ argv = <<>>
    /\ num_data = 0
    /\ args \in [V : WordsV, T : WordsT, bid : 0 .. 1]
    /\ ret = <<>>

TemperSingleCall ==
    /\ hpc = "call"
    /\ ret' = temper_single(args.V, args.T, args.bid)
    /\ hpc' = "ret"
    /\ UNCHANGED <<devVars, block_num, pos_tbl, params, h_tbl, sh_tbl, argv, num_data, args>>

SpecTemper == InitTemper /\ [][TemperSingleCall]_vars

-----------------------------------------------------------------------------
(* make_constant: params[i].pos, .sh1 and .sh2 go to the host arrays, one i  *)
(* at a time, and from there to constant memory.                            *)

PosVals == {0, 1, N - 1, N}

ShVals == {0, 1, 31, 32}

InitConfig ==
    /\ NoLaunch
    /\ block_num \in BlockNums
    /\ params \in [0 .. block_num - 1 -> [pos : PosVals, sh1 : ShVals, sh2 : ShVals]]
    /\ hpc = "make_constant"
    /\ h_tbl = <<>>
    /\ pos_tbl = <<>>
    /\ sh_tbl = <<>>
    /\ argv = <<>>
    /\ num_data = 0
    /\ args = <<>>
    /\ ret = <<>>

\* for (int i = 0; i < block_num; i++) { h_pos_tbl[i] = params[i].pos; ... }
FillEntry ==
    /\ hpc = "make_constant"
    /\ Len(h_tbl) < block_num
    /\ h_tbl' = Append(h_tbl, params[Len(h_tbl)])
    /\ UNCHANGED <<devVars, block_num, pos_tbl, hpc, params, sh_tbl, argv, num_data,
                   args, ret>>

\* cudaMemcpyToSymbol(pos_tbl, h_pos_tbl, size1) and the same for sh1_tbl, sh2_tbl
CopyToSymbol ==
    /\ hpc = "make_constant"
    /\ Len(h_tbl) = block_num
    /\ pos_tbl' = [b \in 0 .. block_num - 1 |-> h_tbl[b + 1].pos]
    /\ sh_tbl' = [b \in 0 .. block_num - 1 |->
                    [sh1 |-> h_tbl[b + 1].sh1, sh2 |-> h_tbl[b + 1].sh2]]
    /\ hpc' = "loaded"
    /\ UNCHANGED <<devVars, block_num, params, h_tbl, argv, num_data, args, ret>>

NextConfig == FillEntry \/ CopyToSymbol

SpecConfig == InitConfig /\ [][NextConfig]_vars

-----------------------------------------------------------------------------
(* main: the arguments are read, num_data is rounded and the kernels are    *)
(* called with size = num_data / block_num.  The requests are small enough  *)
(* for the int arithmetic not to overflow.                                  *)

\* C's a % b and a / b for b > 0: the quotient is truncated toward zero.
CRem(a, b) == IF a >= 0 THEN a % b ELSE -((-a) % b)

CDiv(a, b) == IF a >= 0 THEN a \div b ELSE -((-a) \div b)

BlockArgs == {0, 1, 2, 3, BLOCK_NUM_MAX, BLOCK_NUM_MAX + 1}

DataArgs == -(LARGE_SIZE + 1) .. 3 * LARGE_SIZE + 1

InitMain ==
    /\ NoLaunch
    /\ argv \in [block_num : BlockArgs, num_data : DataArgs]
    /\ hpc = "main"
    /\ block_num = 0
    /\ num_data = 10000000
    /\ pos_tbl = <<>>
    /\ params = <<>>
    /\ h_tbl = <<>>
    /\ sh_tbl = <<>>
    /\ args = <<>>
    /\ ret = <<>>

\* block_num = strtol(argv[1]); the range check; num_data = strtol(argv[2])
ParseArgs ==
    /\ hpc = "main"
    /\ block_num' = argv.block_num
    /\ IF argv.block_num < 1 \/ argv.block_num > BLOCK_NUM_MAX
       THEN hpc' = "return 1" /\ UNCHANGED num_data
       ELSE hpc' = "round" /\ num_data' = argv.num_data
    /\ UNCHANGED <<devVars, pos_tbl, params, h_tbl, sh_tbl, argv, args, ret>>

\* num_unit = LARGE_SIZE * block_num; r = num_data % num_unit;
\* if (r != 0) num_data = num_data + num_unit - r;
RoundUp ==
    /\ hpc = "round"
    /\ LET num_unit == LARGE_SIZE * block_num
           rem      == CRem(num_data, num_unit)
       IN  num_data' = IF rem # 0 THEN num_data + num_unit - rem ELSE num_data
    /\ hpc' = "call"
    /\ UNCHANGED <<devVars, block_num, pos_tbl, params, h_tbl, sh_tbl, argv, args, ret>>

\* kernel<<< block_num, THREAD_NUM >>>(d_status, d_data, num_data / block_num)
KernelCall ==
    /\ hpc = "call"
    /\ size' = CDiv(num_data, block_num)
    /\ hpc' = "sync"
    /\ UNCHANGED <<kernel, d_status, d_data, bstate, status, junk, pc, ph, i_loop, r,
                   epoch, owner, unsynced, rdLog, wrLog, outLog, produced, d_status0,
                   run, first, block_num, pos_tbl, params, h_tbl, sh_tbl, argv,
                   num_data, args, ret>>

NextMain == ParseArgs \/ RoundUp \/ KernelCall

SpecMain == InitMain /\ [][NextMain]_vars

-----------------------------------------------------------------------------
(* The index arithmetic evaluated on its own: the status[] indices that     *)
(* lane tid uses in phase p of each kernel and in copy statement n of       *)
(* status_read / status_write, and the slot lane u writes in phase q.       *)

\* The reads of para_rec's X1, X2, Y and of temper's T, in this order.
PhaseReads(k, p, tid, pos) ==
    <<ReadIdx(k, p, tid, 0), ReadIdx(k, p, tid, 1), ReadIdx(k, p, tid, pos),
      ReadIdx(k, p, tid, pos - 1)>>

\* The status[] index of copy statement n of lane tid, if its guard lets it run.
CopySlots(n, tid) == IF CopyGuard(n, tid) THEN {CopySlot(n, tid)} ELSE {}

InitIndex ==
    /\ NoLaunch
    /\ block_num = 1
    /\ pos_tbl = <<>>
    /\ hpc = "call"
    /\ params = <<>>
    /\ h_tbl = <<>>
    /\ sh_tbl = <<>>
    /\ argv = <<>>
    /\ num_data = 0
    /\ args \in [kernel : {"uint32", "single"}, p : 1 .. 4, tid : Lanes, pos : 1 .. N - 1,
                  q : 1 .. 4, u : Lanes, n : 1 .. 3]
    /\ ret = <<>>

Addresses ==
    /\ hpc = "call"
    /\ ret' = [rd      |-> PhaseReads(args.kernel, args.p, args.tid, args.pos),
               uint32  |-> PhaseReads("uint32", args.p, args.tid, args.pos),
               single  |-> PhaseReads("single", args.p, args.tid, args.pos),
               wr      |-> WriteSlot(args.q, args.u),
               own     |-> WriteSlot(args.p, args.tid),
               copy    |-> CopySlots(args.n, args.tid)]
    /\ hpc' = "ret"
    /\ UNCHANGED <<devVars, block_num, pos_tbl, params, h_tbl, sh_tbl, argv, num_data, args>>

SpecIndex == InitIndex /\ [][Addresses]_vars

-----------------------------------------------------------------------------
(* The claims *)

AllFinished == \A b \in Blocks : bstate[b] = "finished"

\* size is a positive multiple of W = LARGE_SIZE
ValidSize == size > 0 /\ size % LARGE_SIZE = 0

Tempered(V, T, bid) ==
    IF kernel = "uint32" THEN temper(V, T, bid) ELSE temper_single(V, T, bid)

\* The single-lane sequential run: x holds the last N words, oldest first; the
\* next word is para_rec(x[j-N], x[j-N+1], x[j-N+pos]) and its output
\* temper(x[j], x[j-N+pos-1]); n more words are produced.
RECURSIVE SeqOut(_, _, _)
SeqOut(x, n, bid) ==
    IF n = 0 THEN <<>>
    ELSE LET new == para_rec(x[1], x[2], x[1 + pos_tbl[bid]], bid)
             out == Tempered(new, x[pos_tbl[bid]], bid)
         IN  <<out>> \o SeqOut(Append(Tail(x), new), n - 1, bid)

SeqRun(bid) == SeqOut([k \in 1 .. N |-> d_status0[bid * N + k - 1]], size, bid)

\* C1: after a launch with a valid size, the words of every stream in d_data are,
\* in order, those of the single-lane sequential run from the stream's state.
C1_SequentialEquivalence ==
    (AllFinished /\ ValidSize) =>
        \A b \in Blocks :
            LET seq == SeqRun(b)
            IN  \A j \in 0 .. size - 1 : d_data[size * b + j] = seq[j + 1]

\* C2: after a launch with a valid size, every stream's saved state is the last N
\* words the stream produced, in generation order.
C2_Continuity ==
    (AllFinished /\ ValidSize) =>
        \A b \in Blocks : \A k \in 0 .. N - 1 :
            d_status[b * N + k] = produced[b][LARGE_SIZE - N + k]

\* C3: no lane reads a slot that another lane wrote in this call with no barrier
\* between the write and the read.
C3_NoUnsyncedRead == unsynced = {}

\* C4: status_read and status_write of block b touch d_status[b].status[0..N-1] only.
C4_StreamIsolation ==
    \A b \in Blocks :
        \A e \in BagToSet(rdLog[b]) \cup BagToSet(wrLog[b]) : e[1] \in 0 .. N - 1

\* C5: with a valid size, every write to d_data is to an index inside
\* [size*b, size*(b+1)) of its own block b, of the word of generation offset
\* index - size*b, and happens once; after the launch every index of
\* [0, size*block_num) has been written.
C5_OutputLayout ==
    ValidSize =>
        /\ \A e \in BagToSet(outLog) :
                /\ CopiesIn(e, outLog) = 1
                /\ e[3] \in 0 .. size - 1
                /\ e[2] = size * e[1] + e[3]
                /\ e[2] \in 0 .. size * block_num - 1
        /\ AllFinished =>
                \A idx \in 0 .. size * block_num - 1 :
                    \E e \in BagToSet(outLog) : e[2] = idx

C5_Witness == ValidSize /\ AllFinished /\ block_num = 2

\* C6: a launch whose size is not a positive multiple of LARGE_SIZE writes no
\* output word and leaves d_status as it was.
C6_Rejection == ~ValidSize => (outLog = EmptyBag /\ d_status = d_status0)

\* C7: the second of two launches from the same d_status, parameters and size
\* leaves the same d_data and the same d_status as the first.
C7_Determinism ==
    (run = 2 /\ AllFinished) => (d_data = first.data /\ d_status = first.st)

Saving == {"wr1", "wr2", "wr3", "wrB", "done"}

Loading == {"rd1", "rd2", "rd3", "rdB"}

InPhase34(t) == pc[t] \in {"rec", "store", "temper", "bar"} /\ ph[t] \in {3, 4}

\* Lane t has passed the barrier after the last phase of the last batch (or, with
\* no batch to run, the barrier of status_read).
LeftLoop(t) == (pc[t] \in Saving \/ pc[t] = "loop") /\ i_loop[t] >= size

\* C8: a block writes d_status only when every lane of it has left the loop;
\* while a lane is in phase 3 or 4 of a batch every lane is, in the same batch
\* (none is in the next batch or in status_write); while a lane is in
\* status_read every lane is.
C8_SaveOrdering ==
    Running # {} =>
        /\ wrLog[Cur] # EmptyBag =>
              \A t \in Lanes : LeftLoop(t)
        /\ \A t, u \in Lanes :
              InPhase34(t) => (InPhase34(u) /\ i_loop[u] = i_loop[t])
        /\ \A t, u \in Lanes : pc[t] \in Loading => pc[u] \in Loading

C8_Witness ==
    /\ Running # {}
    /\ wrLog[Cur] # EmptyBag
    /\ size >= 2 * LARGE_SIZE
    /\ \E t \in Lanes : pc[t] = "wr1"

\* The copies k -> slot LARGE_SIZE - N + k for exactly the k in [0, N), each once.
ExactCopies == SetToBag({<<k, LARGE_SIZE - N + k>> : k \in 0 .. N - 1})

\* C9: status_read and status_write of a finished block have copied exactly the
\* indices k in [0, N), each once, between d_status[b].status[k] and slot
\* LARGE_SIZE - N + k; a launch of zero batches leaves d_status unchanged.
C9_ExactSaveRestore ==
    /\ \A b \in Blocks :
          bstate[b] = "finished" => (rdLog[b] = ExactCopies /\ wrLog[b] = ExactCopies)
    /\ (AllFinished /\ size <= 0) => d_status = d_status0

\* The exponent field (bits 23..30) of a word read as an IEEE-754 single.
Exponent(w) ==
    LET bit(k) == IF k \in w THEN 1 ELSE 0
    IN  bit(23) + 2 * bit(24) + 4 * bit(25) + 8 * bit(26)
        + 16 * bit(27) + 32 * bit(28) + 64 * bit(29) + 128 * bit(30)

\* The words of d_data that the launch has written.
Written == {e[2] : e \in BagToSet(outLog)} \cap DOMAIN d_data

\* C10: every word mtgp32_single_kernel writes to d_data is a single in
\* [0.0, 1.0): sign bit 0 and exponent field below 127.
C10_FloatUnitRange ==
    kernel = "single" =>
        \A x \in Written : 31 \notin d_data[x] /\ Exponent(d_data[x]) < 127

\* C10, amended: every word mtgp32_single_kernel writes to d_data is a single in
\* [1.0, 2.0): sign bit 0 and exponent field equal to 127.
C10_FloatRange12 ==
    kernel = "single" =>
        \A x \in Written : 31 \notin d_data[x] /\ Exponent(d_data[x]) = 127

C10_Witness == kernel = "single" /\ ValidSize /\ AllFinished /\ Written = DOMAIN d_data

\* The floatTemperTable entry temper_single selects for T.
SelectedEntry == tex_single_ref(args.bid * 16 + Low4(TReduce(args.T)))

\* C11: the top 9 bits of temper_single's result are those of the selected table
\* entry, bit k of its low 23 bits is bit k + 9 of V XOR bit k of the entry, and
\* with an entry of sign 0 and exponent 127 the result has sign 0 and exponent
\* 127, a single in [1.0, 2.0).
C11_TemperFloatBits ==
    hpc = "ret" =>
        /\ ret \cap (23 .. 31) = SelectedEntry \cap (23 .. 31)
        /\ \A k \in 0 .. 22 : (k \in ret) <=> ((k + 9 \in args.V) # (k \in SelectedEntry))
        /\ (31 \notin SelectedEntry /\ Exponent(SelectedEntry) = 127)
              => (31 \notin ret /\ Exponent(ret) = 127)

C11_Witness ==
    /\ hpc = "ret"
    /\ 31 \in args.V
    /\ ret # SelectedEntry
    /\ Exponent(SelectedEntry) = 127

\* C12: no stream's constants are loaded from a ParameterSet whose pos is
\* outside [1, N-1] or whose sh1 or sh2 is outside [1, 31].
C12_ConfigurationError ==
    hpc = "loaded" =>
        \A b \in 0 .. block_num - 1 :
            /\ pos_tbl[b] \in 1 .. N - 1
            /\ sh_tbl[b].sh1 \in 1 .. 31
            /\ sh_tbl[b].sh2 \in 1 .. 31

\* C13: when main calls the kernels, num_data is the least multiple of
\* LARGE_SIZE * block_num that is not below the request, and the size passed,
\* num_data / block_num, is a positive multiple of LARGE_SIZE.
C13_DriverRounding ==
    hpc = "sync" =>
        /\ num_data % (LARGE_SIZE * block_num) = 0
        /\ num_data >= argv.num_data
        /\ num_data - LARGE_SIZE * block_num < argv.num_data
        /\ size > 0
        /\ size % LARGE_SIZE = 0

\* The elements of a tuple of indices.
Range(f) == {f[x] : x \in DOMAIN f}

\* The slots written in phase p of a batch.
PhaseSlots(p) == (p - 1) * THREAD_NUM .. p * THREAD_NUM - 1

\* C14: each of the four reads of a lane in a phase addresses a slot of status[]
\* that holds an earlier word: not a slot written in that same phase.
C14_BackwardIndexing ==
    hpc = "ret" =>
        \A a \in Range(ret.rd) : a \in Slots /\ a \notin PhaseSlots(args.p)

\* Phases p and q lie between the same two barriers, p first.
SameInterval(p, q) == p < q /\ ~(\E b \in p .. q - 1 : HasBarrier(b))

\* C15: the slot a lane writes in a phase is not one that a different lane reads
\* in an earlier phase between the same two barriers.
C15_NoWriteAfterRead ==
    (hpc = "ret" /\ args.u # args.tid /\ SameInterval(args.p, args.q)) =>
        ret.wr \notin Range(ret.rd)

\* C16: every status[] index of status_read, status_write and the four phases
\* lies in [0, LARGE_SIZE).
C16_BufferBounds ==
    hpc = "ret" =>
        /\ Range(ret.rd) \subseteq Slots
        /\ ret.own \in Slots
        /\ ret.copy \subseteq Slots

\* C17: in every phase, for every lane and pos, the two kernels read the same
\* status[] slots.
C17_ModeIndependent == hpc = "ret" => ret.uint32 = ret.single

\* Every lane of the running block waits at the barrier that ends a batch.
BatchEnd == Running # {} /\ \A t \in Lanes : pc[t] = "bar" /\ ph[t] = 4

\* C18: slot s is the slot of exactly one phase and lane, phase s \div THREAD_NUM + 1
\* and lane s % THREAD_NUM; in the loop, a slot written since the last barrier
\* was written by that lane in that phase; and at the end of a batch every slot
\* was written in this batch and holds the word generated for it, so slots
\* [LARGE_SIZE - N, LARGE_SIZE) hold the N newest words in order.
C18_SingleWriter ==
    /\ \A s \in Slots :
          {w \in (1 .. 4) \X Lanes : WriteSlot(w[1], w[2]) = s}
              = {<<s \div THREAD_NUM + 1, s % THREAD_NUM>>}
    /\ Running # {} =>
          \A s \in Slots :
              (owner[s] # NoOwner /\ owner[s][2] >= 1) =>
                  /\ owner[s][1] = s % THREAD_NUM
                  /\ (owner[s][2] % 2 = 1) <=> (s \div THREAD_NUM + 1 \in {1, 2})
    /\ BatchEnd =>
          \A s \in Slots :
              /\ owner[s][2] \in {epoch - 1, epoch}
              /\ status[s] = produced[Cur][s]

C18_Witness == BatchEnd /\ \E t \in Lanes : i_loop[t] >= LARGE_SIZE

AtBarrier(t) == pc[t] \in {"rdB", "bar", "wrB"}

\* ceil(size / LARGE_SIZE) batches when size > 0, none otherwise.
Batches == IF size > 0 THEN (size + LARGE_SIZE - 1) \div LARGE_SIZE ELSE 0

\* C19: two lanes that wait at a barrier wait at the same barrier of the same
\* batch, and the call eventually finishes, having passed the barriers of
\* status_read, of Batches batches (two each) and of status_write.
C19_BarrierTermination ==
    /\ [](\A t, u \in Lanes :
            (AtBarrier(t) /\ AtBarrier(u)) =>
                (pc[t] = pc[u] /\ ph[t] = ph[u] /\ i_loop[t] = i_loop[u]))
    /\ <>(AllFinished /\ epoch = 2 + 2 * Batches)

C19_Witness == AllFinished /\ size = 2 * LARGE_SIZE /\ epoch = 6

====






